---- MODULE Spec2Model ----
(***************************************************************************)
(* On-demand loader nodes of ComfyUI-CivitAI-Loader (src/nodes.py):        *)
(* OnDemandLoraLoader.download_lora, OnDemandUNETLoader.download_unet and  *)
(* OnDemandCheckpointLoader.download_checkpoint.                           *)
(*                                                                         *)
(* Strings that the code inspects character-wise (URLs, header values) are *)
(* sequences of segments, so that str.startswith and re.search are prefix  *)
(* and pattern tests on the text and not tests on a parsed value.          *)
(***************************************************************************)
EXTENDS Integers, Sequences, FiniteSets, TLC

VARIABLES
  NODE_CONFIG,  \* the module-level table load_config() returned
  environ,      \* os.environ, as far as the nodes read it
  files,        \* the model directories: path -> content, or NoFile
  opens,        \* history: how often a path was opened for writing since it last did not exist
  lastWriter,   \* history: the invocation that wrote the last chunk to a path
  inv           \* the invocations: their locals and what each has done

vars == <<NODE_CONFIG, environ, files, opens, lastWriter, inv>>

\* ------------------------------------------------------------------ bounds
\* The longest response body, in chunks of block_size bytes.
MaxChunks == 2

\* ------------------------------------------------------------ python values
\* Python's None where a str is expected.
None == "<None>"
\* Python's None where a sequence-modelled value (url, filename, tuple) is expected.
NoneSeq == <<"<None>">>
\* Truthiness (bool(x)) of an optional str / of an optional segment sequence.
Truthy(s) == s # None /\ s # ""
TruthySeq(s) == s # NoneSeq /\ s # <<>>

\* The three nodes, named by the key of NODE_CONFIG each one reads.
Categories == {"loras", "diffusion_models", "checkpoints"}

\* str.startswith
StartsWith(s, prefix) ==
  /\ Len(s) >= Len(prefix)
  /\ SubSeq(s, 1, Len(prefix)) = prefix

\* --------------------------------------------------------------------- URLs
CIVITAI_PREFIX == <<"https://", "civitai.com">>
HUGGINGFACE_PREFIX == <<"https://", "huggingface.co">>

UrlCivitai == <<"https://", "civitai.com", "/api/download/models/1">>
UrlHuggingFace == <<"https://", "huggingface.co", "/org/repo/resolve/main/m">>
\* https://civitai.com.mirror.example/m : its host is civitai.com.mirror.example
UrlCivitaiLookalike == <<"https://", "civitai.com", ".mirror.example", "/m">>
UrlThirdHost == <<"https://", "example.org", "/m">>
UrlOtherCivitai == <<"https://", "civitai.com", "/api/download/models/2">>
UrlNotValid == <<"not_valid_url">>
UrlEmpty == <<>>

\* The schemes requests.get accepts; any other text raises MissingSchema.
Schemes == {"https://", "http://"}

\* ------------------------------------------------------------ configuration
default_config ==
  [loras |-> << [name |-> "Lora n1", url |-> UrlNotValid],
                [name |-> "Lora n2", url |-> UrlNotValid] >>]

\* A config.json with all three lists; "A" occurs twice among the loras and
\* "E" is a record with an empty url.
FullConfig ==
  [loras |-> << [name |-> "A", url |-> UrlCivitai],
                [name |-> "B", url |-> UrlHuggingFace],
                [name |-> "A", url |-> UrlThirdHost],
                [name |-> "E", url |-> UrlEmpty] >>,
   diffusion_models |-> << [name |-> "A", url |-> UrlCivitaiLookalike],
                           [name |-> "B", url |-> UrlHuggingFace] >>,
   checkpoints |-> << [name |-> "A", url |-> UrlThirdHost],
                      [name |-> "B", url |-> UrlOtherCivitai] >>]

Configs == {default_config, FullConfig}

load_config == Configs

\* Logical names a caller may pass; "Z" is in no list.
Names == {"A", "B", "E", "Z", "Lora n1"}


\* Logical inputs of download_lora that are handed through to the loader.
MODEL_IN == "model#0"
CLIP_IN == "clip#0"

\* --------------------------------------------------------------- resolution
\* for rec in NODE_CONFIG[cat]: if rec["name"] == name: url = rec["url"]; break
RECURSIVE ResolveFrom(_, _, _)
ResolveFrom(records, name, k) ==
  IF k > Len(records) THEN NoneSeq
  ELSE IF records[k].name = name THEN records[k].url
  ELSE ResolveFrom(records, name, k + 1)

ResolveLastMatch(records, name) ==
  LET hits == {k \in 1..Len(records) : records[k].name = name}
  IN IF hits = {} THEN NoneSeq
     ELSE records[CHOOSE k \in hits : \A h \in hits : h <= k].url

Resolve(records, name) == ResolveFrom(records, name, 1)

\* -------------------------------------------------------------- credentials
\* Python's `a or b` on optional strings.
PyOr(a, b) == IF Truthy(a) THEN a ELSE b

\* nodes.py:101-105; os.environ.get gives None for an unset variable.
SelectApiKey(url, api_key) ==
  LET k1 == IF StartsWith(url, CIVITAI_PREFIX)
            THEN PyOr(api_key, environ.CIVITAI_TOKEN) ELSE api_key
  IN IF StartsWith(url, HUGGINGFACE_PREFIX)
     THEN PyOr(k1, environ.HUGGINGFACE_TOKEN) ELSE k1

\* nodes.py:107-112; the dict {"Authorization": f"Bearer {api_key}"} or None.
BuildHeaders(key) ==
  IF Truthy(key) THEN <<"Authorization", "Bearer ", key>> ELSE NoneSeq

\* ----------------------------------------------------- Content-Disposition
Quote == "\""
Space == " "

\* The maximal run [^"]+ starting at position s.
RECURSIVE NonQuoteRun(_, _)
NonQuoteRun(cd, s) ==
  IF s > Len(cd) \/ cd[s] = Quote THEN <<>>
  ELSE <<cd[s]>> \o NonQuoteRun(cd, s + 1)

\* group(1) of  filename="?([^"]+)"?  anchored after the token at k, or NoneSeq.
MatchAt(cd, k) ==
  IF cd[k] # "filename=" THEN NoneSeq
  ELSE LET s == k + 1
           quoted == s <= Len(cd) /\ cd[s] = Quote
           run == IF quoted THEN NonQuoteRun(cd, s + 1) ELSE NonQuoteRun(cd, s)
       IN IF run = <<>> THEN NoneSeq ELSE run

\* re.search: the leftmost position that matches.
RECURSIVE SearchFrom(_, _)
SearchFrom(cd, k) ==
  IF k > Len(cd) THEN NoneSeq
  ELSE IF MatchAt(cd, k) # NoneSeq THEN MatchAt(cd, k)
  ELSE SearchFrom(cd, k + 1)

\* str.strip
RECURSIVE LStrip(_)
LStrip(s) == IF s # <<>> /\ Head(s) = Space THEN LStrip(Tail(s)) ELSE s
RECURSIVE RStrip(_)
RStrip(s) ==
  IF s # <<>> /\ s[Len(s)] = Space THEN RStrip(SubSeq(s, 1, Len(s) - 1)) ELSE s
Strip(s) == RStrip(LStrip(s))

\* nodes.py:116-122; the filename stays None without a matching header.
ParseFilename(cd) ==
  IF ~TruthySeq(cd) THEN NoneSeq
  ELSE LET g == SearchFrom(cd, 1)
       IN IF g = NoneSeq THEN NoneSeq ELSE Strip(g)

\* Header values a server may send (None: no Content-Disposition header).
ContentDispositions ==
  { NoneSeq,
    <<"inline">>,
    <<"attachment;", Space, "filename=", Quote, Quote>>,
    <<"attachment;", Space, "filename=", Quote, "f1", Quote>>,
    <<"attachment;", Space, "filename=", "f2", Space>> }

Filenames == {"f1", "f2"}

\* --------------------------------------------------------------- filesystem
\* os.path.join(folder_paths.models_dir, cat): one directory per node.
ModelsDir(cat) == cat

Paths == {<<ModelsDir(c), f>> : c \in Categories, f \in Filenames}

\* Raised by os.path.join(dir, None).
PathTypeError == <<"TypeError">>

JoinPathDefaultName(dir, filename) ==
  IF filename = NoneSeq THEN <<dir, "f1">> ELSE <<dir>> \o filename

\* os.path.join(models_dir, filename), nodes.py:124
JoinPath(dir, filename) ==
  IF filename = NoneSeq THEN PathTypeError ELSE <<dir>> \o filename

\* No file at a path.
NoFile == <<0 - 1>>
\* A byte range that was never written (a hole left by a write past the end).
Hole == 0

ExistsNever(path) == FALSE

ExistsNonEmpty(path) == files[path] \notin {NoFile, <<>>}

\* os.path.exists
Exists(path) == files[path] # NoFile

\* The file after write(chunk) at chunk offset off (0-based) of an open handle.
RECURSIVE Pad(_, _)
Pad(content, n) == IF Len(content) >= n THEN content ELSE Pad(Append(content, Hole), n)

WriteAtFront(content, off, chunk) == <<chunk>> \o content

WriteAt(content, off, chunk) ==
  LET padded == Pad(content, off)
  IN [k \in 1..(IF Len(padded) > off THEN Len(padded) ELSE off + 1) |->
        IF k = off + 1 THEN chunk ELSE padded[k]]

\* ---------------------------------------------------------------- responses
\* The response is streamed (stream=True): requests.get returns with the
\* status and the headers, and the body arrives chunk by chunk while
\* iter_content is being read. Chunk k of a body carries the data k.
Body(n) == [k \in 1..n |-> k]

NoResponse == [status |-> "none", cd |-> NoneSeq]

Responses ==
  {[NoResponse EXCEPT !.status = "exception"], [NoResponse EXCEPT !.status = "404"]}
  \cup [status : {"200"}, cd : ContentDispositions]

\* ------------------------------------------------------------------ results
\* What the operation hands back on its abort paths.
ReturnNone(cat) == NoneSeq

ReturnOriginal(cat) ==
  IF cat = "loras" THEN <<MODEL_IN, CLIP_IN>> ELSE NoneSeq

\* What the external loader returns for a file name.
LoaderOutput(cat, filename) == <<"loaded", cat>> \o filename


\* ------------------------------------------------------------------- inputs
\* api_key: not given (None), an empty form field, or a key.
ApiKeys == {None, "", "user-key"}
\* download_chunks: the signature's default None, or the form's default 4.
DownloadChunks == {None, "4"}

Environments ==
  [CIVITAI_TOKEN : {None, "civitai-token"}, HUGGINGFACE_TOKEN : {None, "hf-token"}]

\* Invocations that may be in progress at once.
Main == "t1"
Threads == {"t1", "t2"}

\* -------------------------------------------------------------------- state
\* The locals of one invocation, and what it has done so far.
Idle ==
  [pc |-> "idle", cat |-> "loras", name |-> "A", api_key |-> None,
   download_chunks |-> None, url |-> NoneSeq, headers |-> NoneSeq, gets |-> 0,
   status |-> "none", filename |-> NoneSeq, existed |-> "unchecked",
   read |-> 0, written |-> 0, flushed |-> 0, interleaved |-> FALSE, caught |-> None, loader_calls |-> 0, loader_arg |-> NoneSeq,
   loader_saw |-> NoFile, outcome |-> "pending", exc |-> None, value |-> NoneSeq]

Running(i) == inv[i].pc \in {"opening", "streaming", "loading"}

PathOf(i) == JoinPath(ModelsDir(inv[i].cat), inv[i].filename)

InitWith(configs, environments) ==
  /\ NODE_CONFIG \in configs
  /\ environ \in environments
  /\ files = [p \in Paths |-> NoFile]
  /\ opens = [p \in Paths |-> 0]
  /\ lastWriter = [p \in Paths |-> None]
  /\ inv = [i \in Threads |-> Idle]

\* An exception leaves the operation.
Raised(rec, exc) == [rec EXCEPT !.pc = "done", !.outcome = "raised", !.exc = exc]

\* `return model, clip` / `return None` on an abort path.
Aborted(rec) ==
  [rec EXCEPT !.pc = "done", !.outcome = "returned", !.value = ReturnOriginal(rec.cat)]

\* An except clause of nodes.py:142-147 catching exc.
Caught(rec, exc) == Aborted([rec EXCEPT !.caught = exc])

\* nodes.py:86-99: the lookup of the name; what is left of the call needs a
\* response exactly when this is still pending.
Lookup(cat, name, api_key, download_chunks) ==
  LET r0 == [Idle EXCEPT !.cat = cat, !.name = name, !.api_key = api_key,
                         !.download_chunks = download_chunks]
  IN IF cat \notin DOMAIN NODE_CONFIG THEN Raised(r0, "KeyError")
     ELSE LET r1 == [r0 EXCEPT !.url = Resolve(NODE_CONFIG[cat], name)]
          IN IF ~TruthySeq(r1.url) THEN Aborted(r1) ELSE r1

\* nodes.py:101-130: the credential, the GET, the file name and the
\* os.path.exists test. Nothing before the test touches shared state.
Fetch(r1, resp) ==
  LET headers == BuildHeaders(SelectApiKey(r1.url, r1.api_key))
      r2 == [r1 EXCEPT !.headers = headers, !.gets = 1]
  IN IF r1.url[1] \notin Schemes
     THEN Raised([r2 EXCEPT !.status = "exception"], "MissingSchema")
     ELSE IF resp.status = "exception"
     THEN Raised([r2 EXCEPT !.status = "exception"], "ConnectionError")
     ELSE IF resp.status # "200"
     THEN Raised([r2 EXCEPT !.status = resp.status], "HTTPError")
     ELSE
     LET filename == ParseFilename(resp.cd)
         r3 == [r2 EXCEPT !.status = "200", !.filename = filename]
         path == JoinPath(ModelsDir(r1.cat), filename)
     IN IF path = PathTypeError THEN Raised(r3, "TypeError")
        ELSE IF Exists(path)
             THEN [r3 EXCEPT !.pc = "loading", !.existed = "yes"]
             ELSE [r3 EXCEPT !.pc = "opening", !.existed = "no"]

\* download_lora / download_unet / download_checkpoint up to the existence test.
Invoke(i, cat, name, api_key, download_chunks, resps) ==
  /\ ~Running(i)
  /\ LET r1 == Lookup(cat, name, api_key, download_chunks)
     IN IF r1.pc = "done"
        THEN inv' = [inv EXCEPT ![i] = r1]
        ELSE \E resp \in resps : inv' = [inv EXCEPT ![i] = Fetch(r1, resp)]
  /\ UNCHANGED <<NODE_CONFIG, environ, files, opens, lastWriter>>

\* nodes.py:132-136 raising before anything is written: int() of the
\* content-length header (ValueError), None * 1024 (TypeError) or open()
\* itself (OSError); caught at 142-147.
SetupFails(i, why) ==
  /\ inv[i].pc = "opening"
  /\ why = "TypeError" => inv[i].download_chunks = None
  /\ inv' = [inv EXCEPT ![i] = Caught(inv[i], why)]
  /\ UNCHANGED <<NODE_CONFIG, environ, files, opens, lastWriter>>

OpenFileLocked(i) ==
  /\ inv[i].pc = "opening"
  /\ inv[i].download_chunks # None
  /\ \A j \in Threads \ {i} : ~(inv[j].pc = "streaming" /\ PathOf(j) = PathOf(i))
  /\ files' = [files EXCEPT ![PathOf(i)] = <<>>]
  /\ opens' = [opens EXCEPT ![PathOf(i)] = @ + 1]
  /\ inv' = [inv EXCEPT ![i].pc = "streaming"]
  /\ UNCHANGED <<NODE_CONFIG, environ, lastWriter>>

\* open(path, 'wb'), nodes.py:136: creates the file or truncates it.
OpenFile(i) ==
  /\ inv[i].pc = "opening"
  /\ inv[i].download_chunks # None
  /\ files' = [files EXCEPT ![PathOf(i)] = <<>>]
  /\ opens' = [opens EXCEPT ![PathOf(i)] = @ + 1]
  /\ inv' = [inv EXCEPT ![i].pc = "streaming"]
  /\ UNCHANGED <<NODE_CONFIG, environ, lastWriter>>

\* One turn of the loop at nodes.py:137-139: the next chunk arrives and
\* f.write hands it to the file object, which buffers it.
WriteChunk(i) ==
  /\ inv[i].pc = "streaming"
  /\ inv[i].read < MaxChunks
  /\ inv' = [inv EXCEPT ![i].read = @ + 1, ![i].written = @ + 1]
  /\ UNCHANGED <<NODE_CONFIG, environ, files, opens, lastWriter>>

\* The file after the handle's buffered chunks from+1 .. to reached it.
RECURSIVE Flushed(_, _, _)
Flushed(content, from, to) ==
  IF from >= to THEN content
  ELSE Flushed(WriteAt(content, from, Body(from + 1)[from + 1]), from + 1, to)

\* Invocation i puts its chunks up to number `to` into its file.
FlushTo(i, to, rec) ==
  /\ files' = [files EXCEPT ![PathOf(i)] = Flushed(@, inv[i].flushed, to)]
  /\ lastWriter' = [lastWriter EXCEPT ![PathOf(i)] = IF to > inv[i].flushed THEN i ELSE @]
  /\ inv' = [inv EXCEPT ![i] =
       [rec EXCEPT !.flushed = to,
                   !.interleaved =
                      @ \/ (to > inv[i].flushed /\ inv[i].flushed >= 1
                            /\ lastWriter[PathOf(i)] # i)]]

\* The file object's buffer filling up inside f.write, nodes.py:139: the
\* oldest buffered chunk is written at the handle's offset.
Flush(i) ==
  /\ inv[i].pc = "streaming"
  /\ inv[i].flushed < inv[i].written
  /\ FlushTo(i, inv[i].flushed + 1, inv[i])
  /\ UNCHANGED <<NODE_CONFIG, environ, opens>>

StreamFailsCleanup(i, at) ==
  /\ inv[i].pc = "streaming"
  /\ at = "write" => inv[i].read < MaxChunks
  /\ inv' = [inv EXCEPT ![i] = Caught(inv[i], "RequestException")]
  /\ files' = [files EXCEPT ![PathOf(i)] = NoFile]
  /\ UNCHANGED <<NODE_CONFIG, environ, opens, lastWriter>>

\* The loop raising: iter_content (a RequestException) before the next chunk
\* arrives, or f.write (an OSError) on a chunk that was read. The with
\* statement closes the file, which flushes what was written, and an except
\* clause of nodes.py:142-147 returns.
StreamFails(i, at) ==
  /\ inv[i].pc = "streaming"
  /\ \/ /\ at = "read"
        /\ FlushTo(i, inv[i].written, Caught(inv[i], "RequestException"))
     \/ /\ at = "write"
        /\ inv[i].read < MaxChunks
        /\ FlushTo(i, inv[i].written, Caught([inv[i] EXCEPT !.read = @ + 1], "OSError"))
  /\ UNCHANGED <<NODE_CONFIG, environ, opens>>

\* The body ending and the file closing, nodes.py:136-141.
CloseFile(i) ==
  /\ inv[i].pc = "streaming"
  /\ FlushTo(i, inv[i].written, [inv[i] EXCEPT !.pc = "loading"])
  /\ UNCHANGED <<NODE_CONFIG, environ, opens>>

\* nodes.py:150-151: the external loader is handed the file name and its
\* outputs are returned.
CallLoader(i) ==
  /\ inv[i].pc = "loading"
  /\ inv' = [inv EXCEPT ![i] =
       [@ EXCEPT !.pc = "done", !.loader_calls = @ + 1, !.loader_arg = inv[i].filename,
                 !.loader_saw = files[PathOf(i)], !.outcome = "returned",
                 !.value = LoaderOutput(inv[i].cat, inv[i].filename)]]
  /\ UNCHANGED <<NODE_CONFIG, environ, files, opens, lastWriter>>

\* Outside the loaders: the user removes a model file between runs.
UserDelete(p) ==
  /\ \A i \in Threads : ~Running(i)
  /\ files[p] # NoFile
  /\ files' = [files EXCEPT ![p] = NoFile]
  /\ opens' = [opens EXCEPT ![p] = 0]
  /\ lastWriter' = [lastWriter EXCEPT ![p] = None]
  /\ UNCHANGED <<NODE_CONFIG, environ, inv>>

\* ----------------------------------------------------------- specifications
SetupFailures == {"ValueError", "TypeError", "OSError"}

NextWith(threads, cats, names, keys, chunks, resps) ==
  \E i \in threads :
    \/ \E cat \in cats, name \in names, api_key \in keys, download_chunks \in chunks :
         Invoke(i, cat, name, api_key, download_chunks, resps)
    \/ \E why \in SetupFailures : SetupFails(i, why)
    \/ OpenFile(i)
    \/ WriteChunk(i)
    \/ Flush(i)
    \/ \E at \in {"read", "write"} : StreamFails(i, at)
    \/ CloseFile(i)
    \/ CallLoader(i)
    \/ \E p \in Paths : UserDelete(p)

NoTokens == [CIVITAI_TOKEN |-> None, HUGGINGFACE_TOKEN |-> None]

\* Responses whose file name, if any, is f1.
ResponsesOneName == {r \in Responses : ParseFilename(r.cd) \in {NoneSeq, <<"f1">>}}

\* One invocation at a time, as the host's executor runs the nodes: every
\* node, every failure of the fetch and of the download.
Init == InitWith({FullConfig}, {NoTokens})
Next == NextWith({Main}, Categories, {"A", "Z"}, {None}, DownloadChunks, ResponsesOneName)
Spec == Init /\ [][Next]_vars

\* Responses that fail, or that name the file f1 in a quoted parameter.
ResponsesFew ==
  {r \in Responses :
     r.cd \in {NoneSeq, <<"attachment;", Space, "filename=", Quote, "f1", Quote>>}}

\* One invocation at a time: every configuration and every name.
InitNames == InitWith(load_config, {NoTokens})
NextNames == NextWith({Main}, Categories, Names, {None}, {"4"}, ResponsesFew)
SpecNames == InitNames /\ [][NextNames]_vars

\* One invocation at a time: every environment and every key.
InitKeys == InitWith({FullConfig}, Environments)
NextKeys == NextWith({Main}, Categories, {"A", "B"}, ApiKeys, {"4"}, ResponsesFew)
SpecKeys == InitKeys /\ [][NextKeys]_vars

\* One invocation at a time on two nodes: every file name.
NextFiles == NextWith({Main}, {"loras", "checkpoints"}, {"A"}, {None}, {"4"}, Responses)
SpecFiles == Init /\ [][NextFiles]_vars

\* Two invocations of one node at once, for the same name.
NextRace ==
  NextWith(Threads, {"loras"}, {"A"}, {None}, {"4"},
           {r \in Responses : ParseFilename(r.cd) = <<"f1">>})
SpecRace == Init /\ [][NextRace]_vars


\* =================================================================== claims
Done(i) == inv[i].pc = "done"

\* The (model, clip) download_lora was given; None for the other two nodes.
OriginalInputs(cat) == IF cat = "loras" THEN <<"model#0", "clip#0">> ELSE <<"<None>">>

\* ----------------------------------------------------------------------- C1
\* C1 as stated: an operation that finds a file at its destination path has
\* made no HTTP request at all.
C1_NoRequestWhenPresent ==
  \A i \in Threads : inv[i].existed = "yes" => inv[i].gets = 0

\* C1 amended: an operation that finds a file at its destination path has
\* issued its one GET (the path is only known from the response), but reads
\* no chunk of the body and writes nothing; in a sequence of invocations a
\* path is opened for writing at most once for as long as the file exists.
C1_PresenceGuardSkipsDownload ==
  /\ \A i \in Threads :
       inv[i].existed = "yes" =>
         inv[i].gets = 1 /\ inv[i].read = 0 /\ inv[i].written = 0
  /\ \A p \in Paths : opens[p] <= 1 /\ (opens[p] = 1 <=> files[p] # NoFile)

C1_Witness ==
  /\ Done(Main) /\ inv[Main].existed = "yes" /\ inv[Main].gets = 1
  /\ inv[Main].loader_calls = 1
  /\ opens[PathOf(Main)] = 1

\* ----------------------------------------------------------------------- C2
\* C2: when the GET raises or answers with a bad status, no exception leaves
\* the operation: it returns its original inputs, writes no file and does
\* not call the loader.
C2_HttpFailureFailsOpen ==
  \A i \in Threads :
    inv[i].status \in {"exception", "404"} =>
      /\ inv[i].outcome = "returned"
      /\ inv[i].value = OriginalInputs(inv[i].cat)
      /\ inv[i].written = 0 /\ inv[i].loader_calls = 0

\* ----------------------------------------------------------------------- C3
NameInList(cat, name) ==
  /\ cat \in DOMAIN NODE_CONFIG
  /\ \E k \in 1..Len(NODE_CONFIG[cat]) : NODE_CONFIG[cat][k].name = name

NameNotInList(cat, name) ==
  /\ cat \in DOMAIN NODE_CONFIG
  /\ \A k \in 1..Len(NODE_CONFIG[cat]) : NODE_CONFIG[cat][k].name # name

C3_NotFoundState ==
  \A i \in Threads :
    inv[i].pc # "idle" /\ NameNotInList(inv[i].cat, inv[i].name) =>
      /\ Done(i) /\ inv[i].outcome = "returned"
      /\ inv[i].value = OriginalInputs(inv[i].cat)
      /\ inv[i].gets = 0 /\ inv[i].loader_calls = 0
      /\ inv[i].read = 0 /\ inv[i].written = 0

C3_NotFoundStep ==
  \A i \in Threads :
    inv'[i] # inv[i] /\ NameNotInList(inv'[i].cat, inv'[i].name) => files' = files

IsPathSegment(seg) == seg \in {"/api/download/models/1", "/api/download/models/2",
                                "/org/repo/resolve/main/m", "/m"}

\* The host of a URL: the text between the scheme and the path.
RECURSIVE HostFrom(_, _)
HostFrom(url, k) ==
  IF k > Len(url) \/ IsPathSegment(url[k]) THEN <<>>
  ELSE <<url[k]>> \o HostFrom(url, k + 1)

Host(url) == IF Len(url) >= 1 /\ url[1] \in Schemes THEN HostFrom(url, 2) ELSE <<>>

CivitaiHost == <<"civitai.com">>
HuggingFaceHost == <<"huggingface.co">>

\* The token the policy of C4 selects for a URL and an explicit key.
PolicyToken(url, api_key) ==
  IF Truthy(api_key) THEN api_key
  ELSE IF Host(url) = CivitaiHost THEN environ.CIVITAI_TOKEN
  ELSE IF Host(url) = HuggingFaceHost THEN environ.HUGGINGFACE_TOKEN
  ELSE None

\* C4: the request carries 'Bearer <explicit key>' when a key is given,
\* else the CIVITAI_TOKEN only for a URL on the CivitAI host and the
\* HUGGINGFACE_TOKEN only for a URL on the HuggingFace host, and no
\* Authorization header when no token resolves.
C4_CredentialSelection ==
  \A i \in Threads :
    inv[i].gets = 1 =>
      LET token == PolicyToken(inv[i].url, inv[i].api_key)
      IN inv[i].headers =
           IF Truthy(token) THEN <<"Authorization", "Bearer ", token>> ELSE NoneSeq

\* ----------------------------------------------------------------------- C5
C5_FailureState ==
  \A i \in Threads :
    inv[i].caught # None =>
      /\ Done(i) /\ inv[i].outcome = "returned"
      /\ inv[i].value = OriginalInputs(inv[i].cat)
      /\ inv[i].existed = "no"
      /\ inv[i].loader_calls = 0
      /\ inv[i].gets = 1

C5_FailureStep ==
  \A i \in Threads :
    inv[i].pc = "streaming" /\ inv'[i].caught # None =>
      /\ files'[PathOf(i)] = [k \in 1..inv[i].written |-> k]
      /\ \A p \in Paths \ {PathOf(i)} : files'[p] = files[p]

\* C5: an exception while the body is read and written, at any chunk, is
\* caught: the operation returns its original inputs, does not call the
\* loader, issues no second GET, and the file keeps the chunks written so far.
C5_StreamingFailure == []C5_FailureState /\ [][C5_FailureStep]_vars

C5_Witness ==
  /\ Done(Main) /\ inv[Main].caught = "RequestException"
  /\ inv[Main].written = 1
  /\ files[PathOf(Main)] = <<1>>

\* ----------------------------------------------------------------------- C6
FirstMatch(cat, name) ==
  CHOOSE k \in 1..Len(NODE_CONFIG[cat]) :
    /\ NODE_CONFIG[cat][k].name = name
    /\ \A h \in 1..(k - 1) : NODE_CONFIG[cat][h].name # name

C6_ResolvedState ==
  \A i \in Threads :
    inv[i].pc # "idle" /\ NameInList(inv[i].cat, inv[i].name) =>
      inv[i].url = NODE_CONFIG[inv[i].cat][FirstMatch(inv[i].cat, inv[i].name)].url

\* C6: a name that occurs in its node's list resolves to the url of the first
\* record with that name, and no operation changes the table.
C6_NameResolution == []C6_ResolvedState /\ [][NODE_CONFIG' = NODE_CONFIG]_vars

C6_Witness ==
  /\ Done(Main) /\ inv[Main].cat = "loras" /\ inv[Main].name = "A"
  /\ inv[Main].url = UrlCivitai
  /\ inv[Main].loader_calls = 1

\* ----------------------------------------------------------------------- C7
NoFilename(i) == inv[i].status = "200" /\ inv[i].filename = NoneSeq

\* C7 as stated: without a usable Content-Disposition header the operation
\* signals no error and goes on to the existence test.
C7_MissingFilenameProceeds ==
  \A i \in Threads :
    NoFilename(i) => inv[i].outcome # "raised" /\ inv[i].existed # "unchecked"

C7_RaisedState ==
  \A i \in Threads :
    NoFilename(i) =>
      /\ Done(i) /\ inv[i].outcome = "raised" /\ inv[i].exc = "TypeError"
      /\ inv[i].existed = "unchecked"
      /\ inv[i].read = 0 /\ inv[i].written = 0 /\ inv[i].loader_calls = 0

C7_RaisedStep ==
  \A i \in Threads : inv'[i] # inv[i] /\ NoFilename(i)' => files' = files

\* C7 amended: without a usable Content-Disposition header the file name
\* stays None; building the destination path from it raises a TypeError that
\* leaves the operation before the existence test: no file is touched and
\* the loader is not called.
C7_MissingFilenameRaises == []C7_RaisedState /\ [][C7_RaisedStep]_vars

C7_Witness ==
  /\ NoFilename(Main) /\ inv[Main].exc = "TypeError"
  /\ files[<<ModelsDir(inv[Main].cat), "f1">>] # NoFile

\* ----------------------------------------------------------------------- C8
C8_SkipState ==
  \A i \in Threads :
    inv[i].existed = "yes" =>
      /\ inv[i].read = 0 /\ inv[i].written = 0
      /\ inv[i].pc \in {"loading", "done"}
      /\ Done(i) =>
           /\ inv[i].loader_calls = 1
           /\ inv[i].loader_arg = inv[i].filename
           /\ inv[i].loader_saw = files[PathOf(i)] \/ files[PathOf(i)] = NoFile

\* The file at p is removed, by no invocation.
Removed(p) ==
  /\ files'[p] = NoFile
  /\ inv' = inv
  /\ \A i \in Threads : ~Running(i)

\* The download that created the file at p appends its next chunk.
Appended(p) ==
  \E i \in Threads :
    /\ inv[i].pc = "streaming" /\ PathOf(i) = p
    /\ inv'[i].flushed > inv[i].flushed
    /\ Len(files'[p]) = Len(files[p]) + inv'[i].flushed - inv[i].flushed
    /\ SubSeq(files'[p], 1, Len(files[p])) = files[p]

C8_ContentStep ==
  \A p \in Paths :
    files[p] # NoFile =>
      /\ opens'[p] <= opens[p]
      /\ files'[p] # files[p] => Removed(p) \/ Appended(p)

\* C8: once a file exists at a path, complete or partial, it is never opened
\* for writing again: invocations that derive its name read no chunk, leave
\* its content as it is and call the loader with that name. Beyond the
\* download that created it appending its chunks, the content changes only
\* when the file is removed from outside the loaders.
C8_NoSelfHealing == []C8_SkipState /\ [][C8_ContentStep]_vars

C8_Witness ==
  /\ Done(Main) /\ inv[Main].existed = "yes" /\ inv[Main].loader_calls = 1
  /\ inv[Main].cat = "checkpoints" /\ inv[Main].filename = <<"f2">>
  /\ inv[Main].loader_saw = <<1>>
  /\ files[<<"checkpoints", "f1">>] = <<1, 2>>

\* ----------------------------------------------------------------------- C9
\* C9: nothing makes an invocation wait for another one: having found no
\* file it can open the path, with the path open it can write and flush its
\* next chunk, and with its download over it can call the loader, whatever the
\* other invocation is doing to the same path.
C9_NoInvocationGuard ==
  \A i \in Threads :
    /\ inv[i].pc = "opening" /\ inv[i].download_chunks # None => ENABLED OpenFile(i)
    /\ inv[i].pc = "streaming" /\ inv[i].read < MaxChunks => ENABLED WriteChunk(i)
    /\ inv[i].pc = "streaming" /\ inv[i].flushed < inv[i].written => ENABLED Flush(i)
    /\ inv[i].pc = "loading" => ENABLED CallLoader(i)

\* Both invocations found no file and opened the same path, their chunk
\* writes alternated, and t2 has called the loader while t1 is still writing.
C9_Witness ==
  /\ inv["t1"].pc = "streaming" /\ inv["t2"].pc = "done"
  /\ inv["t1"].existed = "no" /\ inv["t2"].existed = "no"
  /\ PathOf("t1") = PathOf("t2")
  /\ opens[PathOf("t1")] = 2
  /\ inv["t2"].interleaved
  /\ inv["t2"].loader_calls = 1
  /\ inv["t1"].read >= 1 /\ inv["t1"].read < MaxChunks

\* ---------------------------------------------------------------------- C10
\* C10: the loader is called at most once, with the derived file name and
\* with a file at the destination path; after a download the file holds
\* the chunks of the body in the order received; the loader's outputs are
\* what the operation returns.
C10_LoadAfterDownload ==
  \A i \in Threads :
    /\ inv[i].loader_calls <= 1
    /\ inv[i].loader_calls = 1 =>
         /\ inv[i].loader_saw # NoFile
         /\ inv[i].loader_arg = inv[i].filename
         /\ inv[i].outcome = "returned"
         /\ inv[i].value = <<"loaded", inv[i].cat>> \o inv[i].filename
         /\ inv[i].existed = "no" =>
              /\ inv[i].written = inv[i].read
              /\ inv[i].loader_saw = [k \in 1..inv[i].read |-> k]

C10_Witness ==
  /\ Done(Main) /\ inv[Main].loader_calls = 1 /\ inv[Main].existed = "no"
  /\ inv[Main].read >= 2
  /\ inv[Main].loader_saw = <<1, 2>>

====
